---------------------------- MODULE Spec2Model ----------------------------
(***************************************************************************)
(* A model of imagecut.                                                    *)
(*                                                                         *)
(*   - the segmentation planner of src/interactive_splitter.py             *)
(*     (InteractiveSplitter.split_by_positions and                         *)
(*     _split_with_global_numbering), specification SpecPlanner, and its   *)
(*     batch_process over several uploaded images, specification          *)
(*     SpecUpload; a session without a SKU, specification SpecNoSku; the   *)
(*     preview route beside the split, specification SpecPreview;          *)
(*   - the fixed-grid transform of src/image_splitter.py                   *)
(*     (ImageSplitter.split_image), specification SpecGrid;                *)
(*   - the resumable parallel batch coordinator of src/batch_processor.py  *)
(*     (main, BatchProcessor.process_directory_parallel, the worker pool), *)
(*     specification SpecBatch; its report alone, specification            *)
(*     SpecReport; a run around the periodic checkpoint, specification     *)
(*     SpecCheckpoint; one run without an interrupt, under fairness,       *)
(*     specification SpecUninterrupted.                                    *)
(*                                                                         *)
(* The pixel work (decode, crop, encode) is an external capability: the    *)
(* model keeps its crop boxes and file names and leaves out the pixels,    *)
(* the byte sizes and the wall-clock timestamps.                           *)
(***************************************************************************)
EXTENDS Integers, Sequences, FiniteSets, TLC

VARIABLES
    \* ---- InteractiveSplitter (src/interactive_splitter.py)
    current_image,      \* the loaded image: [width, height]
    current_sku,        \* self.current_sku, a string of characters
    uploaded_images,    \* self.uploaded_images: the session's images, in upload order
    request,            \* the arguments of the last planner call
    response,           \* the dict that call returned
    codec_calls,        \* the crop boxes that call handed to img.crop, in order
    effects,            \* what that call opened, created and wrote on the file system
    preview,            \* what /api/preview_splits answered for the same request
    \* ---- ImageSplitter (src/image_splitter.py), called on its own
    grid_call,          \* the file, the format and the loaded config of a split_image call
    grid_result,        \* what that call returned
    \* ---- the batch run's inputs (src/batch_processor.py, main's arguments)
    input_exists,       \* whether args.input_dir exists
    directory,          \* the image files under input_dir: file f is directory[f]
    output_format,      \* args.format
    max_workers,        \* args.workers
    resume_file,        \* args.resume: "" for None, else the file's name
    \* ---- the file system
    resume_disk,        \* the resume file on disk
    \* ---- main and BatchProcessor.process_directory_parallel
    pc,                 \* where the main thread is
    image_files,        \* the scan's result
    processed_files,    \* the in-memory checkpoint set
    remaining_files,
    futures,            \* future_to_file: per file, the future's state and result
    results,            \* self.results
    completed,
    report,             \* the report this process built (and wrote), if any
    interrupted,        \* a KeyboardInterrupt was raised in the main thread
    exit_code,          \* the process's exit status, -1 while it runs
    \* ---- history
    run,                \* the number of the current process
    history             \* what each finished process did

planner_vars ==
    <<current_image, current_sku, uploaded_images, request, response, codec_calls,
      effects, preview>>

grid_vars == <<grid_call, grid_result>>

batch_inputs == <<input_exists, directory, output_format, max_workers, resume_file>>

batch_vars ==
    <<input_exists, directory, output_format, max_workers, resume_file, resume_disk,
      pc, image_files, processed_files, remaining_files, futures, results, completed,
      report, interrupted, exit_code, run, history>>

vars == <<planner_vars, grid_vars, batch_vars>>

-----------------------------------------------------------------------------
(* Bounds of the model.                                                    *)

MaxHeight == 3      \* generic images are 1..MaxHeight pixels tall
MaxCuts == 2        \* a request carries at most MaxCuts cut positions
ImageWidth == 2     \* the width of every generic image
MaxStartIndex == 2  \* the largest start_index given to _split_with_global_numbering
MaxFiles == 3       \* a generic input directory holds at most MaxFiles image files
MaxWorkers == 2     \* --workers of the generic batch runs
MaxRuns == 2        \* processes started one after the other on the same directory
MaxGridHeight == 8  \* the images given to split_image alone are 0..MaxGridHeight tall
MaxTargetHeight == 3 \* the configured target heights are 1..MaxTargetHeight
MaxOverlap == 2     \* the configured overlap_pixels are 0..MaxOverlap

-----------------------------------------------------------------------------
(* Helpers: Python's sorted(), len(), f-strings.                           *)

RECURSIVE Insert(_, _)
Insert(x, s) ==
    IF s = <<>> THEN <<x>>
    ELSE IF x <= Head(s) THEN <<x>> \o s
    ELSE <<Head(s)>> \o Insert(x, Tail(s))

RECURSIVE sorted(_)
sorted(s) == IF s = <<>> THEN <<>> ELSE Insert(Head(s), sorted(Tail(s)))

DigitChar(d) == <<"0", "1", "2", "3", "4", "5", "6", "7", "8", "9">>[d + 1]

RECURSIVE Digits(_)
Digits(n) ==
    IF n < 10 THEN <<DigitChar(n)>> ELSE Digits(n \div 10) \o <<DigitChar(n % 10)>>

\* f"{n:03d}": the decimal digits of n, zero-padded on the left to width 3.
Format03d(n) ==
    LET d == Digits(n)
    IN  IF Len(d) >= 3 THEN d
        ELSE IF Len(d) = 2 THEN <<"0">> \o d
        ELSE <<"0", "0">> \o d

\* f"{sku}_{n:03d}.jpg": a string is the sequence of its parts (the SKU's
\* characters, the digits, the literal pieces).
BaseFilename(sku, n) == sku \o <<"_">> \o Format03d(n) \o <<".jpg">>

\* f"{sku}_{n:03d}-size.jpg"
SizeFilename(sku, n) == sku \o <<"_">> \o Format03d(n) \o <<"-size.jpg">>

\* f"/download/{sku}/{filename}"
DownloadUrl(sku, filename) == <<"/download/">> \o sku \o <<"/">> \o filename

\* sku.strip() if sku else None; a SKU is a sequence of characters and None is <<>>
RECURSIVE LStrip(_)
LStrip(s) == IF s # <<>> /\ Head(s) = " " THEN LStrip(Tail(s)) ELSE s

RECURSIVE RStrip(_)
RStrip(s) ==
    IF s # <<>> /\ s[Len(s)] = " " THEN RStrip(SubSeq(s, 1, Len(s) - 1)) ELSE s

set_sku(sku) == RStrip(LStrip(sku))

-----------------------------------------------------------------------------
(* The segmentation planner: InteractiveSplitter.split_by_positions.       *)

NoImage == [width |-> 0, height |-> 0]

ErrNoImageOrCuts == [error |-> "no image loaded or no cut positions"]
ErrNoSku == [error |-> "no SKU"]
ErrRaised == [error |-> "exception"]

\* Variant: the image height is not appended as the last boundary.
sorted_positions_without_height(cut_positions, img_height) ==
    sorted(<<0>> \o cut_positions)

\* sorted([0] + cut_positions + [img_height])
sorted_positions(cut_positions, img_height) ==
    sorted(<<0>> \o cut_positions \o <<img_height>>)

\* Variant: a skip area that only touches the segment counts as an overlap.
InSkipAreaTouching(top, bottom, skip_areas) ==
    \E j \in 1..Len(skip_areas) :
        ~(bottom < skip_areas[j].start \/ top > skip_areas[j].end)

\* The inner loop over skip_areas: is_in_skip_area after the loop.
InSkipArea(top, bottom, skip_areas) ==
    \E j \in 1..Len(skip_areas) :
        ~(bottom <= skip_areas[j].start \/ top >= skip_areas[j].end)

\* Variant: a dropped segment does not consume an index.
IndexAfterDropKept(segment_index) == segment_index

\* segment_index += 1 on the two paths that drop a segment
IndexAfterDrop(segment_index) == segment_index + 1

\* The external codec: img.crop(crop_box) followed by cropped.save(...). Pillow
\* crops an empty box without complaint; whether the encoder then writes or
\* raises for an empty image depends on the codec build, so the caller of the
\* planner passes the outcome in (accepts_empty).
SaveRaises(crop_box, accepts_empty) ==
    (crop_box[4] - crop_box[2] = 0 \/ crop_box[3] - crop_box[1] = 0)
    /\ ~accepts_empty

\* One entry of split_info (size_kb, the encoded size, is left out).
Detail(index, filename, crop_box, sku, has_size_suffix) ==
    [index |-> index,
     filename |-> filename,
     crop_box |-> crop_box,
     dimensions |-> <<crop_box[3], crop_box[4] - crop_box[2]>>,
     sku |-> sku,
     has_size_suffix |-> has_size_suffix,
     download_url |-> DownloadUrl(sku, filename)]

\* Variant: the "-size" duplicate replaces the base artifact.
SegmentOutputsSizeOnly(number, crop_box, sku, has_size_suffix) ==
    IF has_size_suffix
    THEN <<Detail(number, SizeFilename(sku, number), crop_box, sku, TRUE)>>
    ELSE <<Detail(number, BaseFilename(sku, number), crop_box, sku, FALSE)>>

\* What one surviving segment appends to split_info: the base artifact and,
\* when its index is in size_segments, the "-size" duplicate.
SegmentOutputs(number, crop_box, sku, has_size_suffix) ==
    <<Detail(number, BaseFilename(sku, number), crop_box, sku, FALSE)>>
    \o (IF has_size_suffix
        THEN <<Detail(number, SizeFilename(sku, number), crop_box, sku, TRUE)>>
        ELSE <<>>)

\* The loop state before the first iteration.
LoopStart(start_index) ==
    [segment_index |-> 1,
     global_segment_index |-> start_index,
     excluded_by_segment_count |-> 0,
     split_info |-> <<>>,
     crops |-> <<>>,
     raised |-> FALSE]

\* for i in range(len(sorted_positions) - 1): ... of split_by_positions, from
\* iteration i (1-based) on; st is the loop state, a the call's arguments.
RECURSIVE SplitLoop(_, _, _, _, _, _, _)
SplitLoop(pos, i, st, a, img, sku, accepts_empty) ==
    IF i > Len(pos) - 1 THEN st
    ELSE
      LET top == pos[i]
          bottom == pos[i + 1]
          crop_box == <<0, top, img.width, bottom>>
      IN  IF st.segment_index \in a.excluded_segments
          THEN SplitLoop(pos, i + 1,
                 [st EXCEPT !.excluded_by_segment_count = @ + 1,
                            !.segment_index = IndexAfterDrop(@)],
                 a, img, sku, accepts_empty)
          ELSE IF InSkipArea(top, bottom, a.skip_areas)
          THEN SplitLoop(pos, i + 1,
                 [st EXCEPT !.segment_index = IndexAfterDrop(@)],
                 a, img, sku, accepts_empty)
          ELSE IF SaveRaises(crop_box, accepts_empty)
          THEN [st EXCEPT !.raised = TRUE, !.crops = Append(@, crop_box)]
          ELSE SplitLoop(pos, i + 1,
                 [st EXCEPT
                    !.split_info = @ \o SegmentOutputs(st.segment_index, crop_box, sku,
                                         st.segment_index \in a.size_segments),
                    !.crops = Append(@, crop_box),
                    !.segment_index = @ + 1],
                 a, img, sku, accepts_empty)

\* The dict returned after the loop.
SplitResult(st, a, sku) ==
    IF st.raised THEN ErrRaised
    ELSE [success |-> TRUE,
          splits_created |-> Len(st.split_info),
          skipped_areas |-> Len(a.skip_areas),
          excluded_segments |-> st.excluded_by_segment_count,
          output_directory |-> <<"output", "manual_split">> \o sku,
          sku |-> sku,
          details |-> st.split_info]

\* Variant: the SKU is not looked at before the work starts.
sku_never_missing(sku) == FALSE

\* not self.current_sku: true for None and for the empty string, which are
\* both <<>> here.
sku_missing(sku) == sku = <<>>

\* What a call did on the file system: the images it opened, the
\* directories it created, the names of the files it wrote, in order.
NoEffects == [opened |-> <<>>, directories |-> {}, written |-> <<>>]

\* Path(output_dir) / "manual_split" / self.current_sku
sku_output_path(sku) == <<"output", "manual_split">> \o sku

\* The effects of a split call whose loop ended in state st: Image.open,
\* sku_output_path.mkdir, and one cropped.save per entry of split_info
\* (those written before a raise stay on disk).
EffectsOfLoop(img, sku, st) ==
    [opened |-> <<img>>,
     directories |-> {sku_output_path(sku)},
     written |-> [i \in 1..Len(st.split_info) |-> st.split_info[i].filename]]

\* Variant: an empty list of cut positions is planned like any other.
no_cut_positions_accepted(cut_positions) == FALSE

\* not cut_positions
no_cut_positions(cut_positions) == cut_positions = <<>>

split_by_positions(img, sku, a, accepts_empty) ==
    IF img = NoImage \/ no_cut_positions(a.cut_positions) THEN ErrNoImageOrCuts
    ELSE IF sku_missing(sku) THEN ErrNoSku
    ELSE SplitResult(
           SplitLoop(sorted_positions(a.cut_positions, img.height), 1,
                     LoopStart(1), a, img, sku, accepts_empty),
           a, sku)

\* The crop boxes split_by_positions hands to img.crop (line 248), in order.
crops_by_positions(img, sku, a, accepts_empty) ==
    IF img = NoImage \/ no_cut_positions(a.cut_positions) \/ sku_missing(sku) THEN <<>>
    ELSE SplitLoop(sorted_positions(a.cut_positions, img.height), 1,
                   LoopStart(1), a, img, sku, accepts_empty).crops

\* What split_by_positions opens, creates and writes.
effects_by_positions(img, sku, a, accepts_empty) ==
    IF img = NoImage \/ no_cut_positions(a.cut_positions) \/ sku_missing(sku)
    THEN NoEffects
    ELSE EffectsOfLoop(img, sku,
           SplitLoop(sorted_positions(a.cut_positions, img.height), 1,
                     LoopStart(1), a, img, sku, accepts_empty))

-----------------------------------------------------------------------------
(* InteractiveSplitter._split_with_global_numbering: the same loop, with   *)
(* the file names numbered by a running index that starts at start_index.  *)

RECURSIVE GlobalSplitLoop(_, _, _, _, _, _, _)
GlobalSplitLoop(pos, i, st, a, img, sku, accepts_empty) ==
    IF i > Len(pos) - 1 THEN st
    ELSE
      LET top == pos[i]
          bottom == pos[i + 1]
          crop_box == <<0, top, img.width, bottom>>
      IN  IF st.segment_index \in a.excluded_segments
          THEN GlobalSplitLoop(pos, i + 1,
                 [st EXCEPT !.excluded_by_segment_count = @ + 1,
                            !.segment_index = IndexAfterDrop(@)],
                 a, img, sku, accepts_empty)
          ELSE IF InSkipArea(top, bottom, a.skip_areas)
          THEN GlobalSplitLoop(pos, i + 1,
                 [st EXCEPT !.segment_index = IndexAfterDrop(@)],
                 a, img, sku, accepts_empty)
          ELSE IF SaveRaises(crop_box, accepts_empty)
          THEN [st EXCEPT !.raised = TRUE, !.crops = Append(@, crop_box)]
          ELSE GlobalSplitLoop(pos, i + 1,
                 [st EXCEPT
                    !.split_info = @ \o SegmentOutputs(st.global_segment_index, crop_box,
                                         sku, st.segment_index \in a.size_segments),
                    !.crops = Append(@, crop_box),
                    !.segment_index = @ + 1,
                    !.global_segment_index = @ + 1],
                 a, img, sku, accepts_empty)

\* Path("output") / "manual_split" / self.current_sku raises for a SKU of None.
split_with_global_numbering(img, sku, a, start_index, accepts_empty) ==
    IF img = NoImage \/ no_cut_positions(a.cut_positions) THEN ErrNoImageOrCuts
    ELSE IF sku = <<>> THEN ErrRaised
    ELSE SplitResult(
           GlobalSplitLoop(sorted_positions(a.cut_positions, img.height), 1,
                           LoopStart(start_index), a, img, sku, accepts_empty),
           a, sku)

\* The crop boxes _split_with_global_numbering hands to img.crop (line 442).
crops_with_global_numbering(img, sku, a, start_index, accepts_empty) ==
    IF img = NoImage \/ no_cut_positions(a.cut_positions) \/ sku = <<>> THEN <<>>
    ELSE GlobalSplitLoop(sorted_positions(a.cut_positions, img.height), 1,
                         LoopStart(start_index), a, img, sku, accepts_empty).crops

\* What _split_with_global_numbering opens, creates and writes; for a SKU of
\* None the image is opened before the path expression raises.
effects_with_global_numbering(img, sku, a, start_index, accepts_empty) ==
    IF img = NoImage \/ no_cut_positions(a.cut_positions) THEN NoEffects
    ELSE IF sku = <<>> THEN [NoEffects EXCEPT !.opened = <<img>>]
    ELSE EffectsOfLoop(img, sku,
           GlobalSplitLoop(sorted_positions(a.cut_positions, img.height), 1,
                           LoopStart(start_index), a, img, sku, accepts_empty))

-----------------------------------------------------------------------------
(* InteractiveSplitter.batch_process: the same request applied to every    *)
(* uploaded image in turn.                                                 *)

ErrNoImages == [error |-> "no images to process"]

\* global_index += result['splits_created']
global_index_advance(result) == result.splits_created

\* The loop state before the first image.
BatchLoopStart ==
    [all_results |-> <<>>, total_splits |-> 0, global_index |-> 1, crops |-> <<>>,
     effects |-> NoEffects]

\* The effects of two calls made one after the other.
ThenEffects(e1, e2) ==
    [opened |-> e1.opened \o e2.opened,
     directories |-> e1.directories \cup e2.directories,
     written |-> e1.written \o e2.written]

\* for i, image_info in enumerate(self.uploaded_images): ..., from image i
\* (1-based) on.
RECURSIVE BatchLoop(_, _, _, _, _, _, _)
BatchLoop(images, i, st, sku, a, global_numbering, accepts_empty) ==
    IF i > Len(images) THEN st
    ELSE
      LET img == images[i]
          result == IF global_numbering
                    THEN split_with_global_numbering(img, sku, a, st.global_index,
                                                     accepts_empty)
                    ELSE split_by_positions(img, sku, a, accepts_empty)
          crops == IF global_numbering
                   THEN crops_with_global_numbering(img, sku, a, st.global_index,
                                                    accepts_empty)
                   ELSE crops_by_positions(img, sku, a, accepts_empty)
          split_effects ==
                   IF global_numbering
                   THEN effects_with_global_numbering(img, sku, a, st.global_index,
                                                      accepts_empty)
                   ELSE effects_by_positions(img, sku, a, accepts_empty)
          \* self.load_image(image_info['path']) opens the image first
          load_effects == [NoEffects EXCEPT !.opened = <<img>>]
          ok == "error" \notin DOMAIN result
      IN  BatchLoop(images, i + 1,
            [all_results |-> Append(st.all_results,
                                    [image_index |-> i - 1, result |-> result]),
             total_splits |-> st.total_splits + (IF ok THEN result.splits_created ELSE 0),
             global_index |-> st.global_index
                              + (IF global_numbering /\ ok
                                 THEN global_index_advance(result) ELSE 0),
             crops |-> st.crops \o crops,
             effects |-> ThenEffects(st.effects, ThenEffects(load_effects, split_effects))],
            sku, a, global_numbering, accepts_empty)

\* The dict batch_process returns for the final loop state st.
BatchResult(images, st, sku) ==
    LET success_count ==
            Cardinality({j \in 1..Len(st.all_results) :
                            "error" \notin DOMAIN st.all_results[j].result})
    IN  [success |-> TRUE,
         total_images |-> Len(images),
         success_count |-> success_count,
         error_count |-> Len(st.all_results) - success_count,
         total_splits_created |-> st.total_splits,
         sku |-> sku,
         results |-> st.all_results]

batch_process(images, sku, a, global_numbering, accepts_empty) ==
    IF images = <<>> THEN ErrNoImages
    ELSE IF sku_missing(sku) THEN ErrNoSku
    ELSE BatchResult(images,
                     BatchLoop(images, 1, BatchLoopStart, sku, a, global_numbering,
                               accepts_empty),
                     sku)

\* The crop boxes batch_process hands to img.crop, over all images.
crops_of_batch_process(images, sku, a, global_numbering, accepts_empty) ==
    IF images = <<>> \/ sku_missing(sku) THEN <<>>
    ELSE BatchLoop(images, 1, BatchLoopStart, sku, a, global_numbering,
                   accepts_empty).crops

\* What batch_process opens, creates and writes, over all images.
effects_of_batch_process(images, sku, a, global_numbering, accepts_empty) ==
    IF images = <<>> \/ sku_missing(sku) THEN NoEffects
    ELSE BatchLoop(images, 1, BatchLoopStart, sku, a, global_numbering,
                   accepts_empty).effects

-----------------------------------------------------------------------------
(* The route /api/preview_splits: the segments the page draws before the   *)
(* split is made.                                                          *)

ErrNoImageData == [error |-> "no image loaded"]

\* current_image_data['display_size']['height'], as load_image sets it:
\* int(height * (display_width / width)) with display_width = min(width, 800).
display_height(img) ==
    IF img.width <= 800 THEN img.height ELSE (img.height * 800) \div img.width

\* for i in range(len(sorted_positions) - 1): ... of preview_splits, from
\* iteration i (1-based) on, with the running segment_index.
RECURSIVE PreviewLoop(_, _, _, _)
PreviewLoop(pos, i, segment_index, skip_areas) ==
    IF i > Len(pos) - 1 THEN <<>>
    ELSE LET top == pos[i]
             bottom == pos[i + 1]
         IN  IF InSkipArea(top, bottom, skip_areas)
             THEN PreviewLoop(pos, i + 1, segment_index, skip_areas)
             ELSE <<[index |-> segment_index,
                     top |-> top,
                     height |-> bottom - top,
                     bottom |-> bottom,
                     is_skipped |-> FALSE]>>
                  \o PreviewLoop(pos, i + 1, segment_index + 1, skip_areas)

preview_splits(img, cut_positions, skip_areas) ==
    IF img = NoImage THEN ErrNoImageData
    ELSE [segments |->
            PreviewLoop(sorted(<<0>> \o cut_positions \o <<display_height(img)>>), 1, 1,
                        skip_areas)]

-----------------------------------------------------------------------------
(* The planner's inputs.                                                   *)

\* The image and request of the concrete scenarios: height 3000, cuts at
\* 1000 and 2000, a skip area from 900 to 1100.
ScenarioImage == [width |-> 750, height |-> 3000]
ScenarioCuts == {1000, 2000}
ScenarioSkipPoints == {900, 1100}

Images ==
    {[width |-> ImageWidth, height |-> h] : h \in 1..MaxHeight} \cup {ScenarioImage}

CutPoints(img) == IF img = ScenarioImage THEN ScenarioCuts ELSE 0..img.height
SkipPoints(img) == IF img = ScenarioImage THEN ScenarioSkipPoints ELSE 0..img.height

SeqsUpTo(S, n) == UNION {[1..k -> S] : k \in 0..n}

\* At most one skip area, of any two points (start > end included).
SkipAreaLists(img) ==
    {<<>>} \cup {<<[start |-> s, end |-> e]>> : s \in SkipPoints(img), e \in SkipPoints(img)}

\* excluded_segments: no index, or one of those a request of MaxCuts cuts can
\* form (a second segment is dropped by a skip area).
ExcludedLists == {{}} \cup {{k} : k \in 1..(MaxCuts + 1)}

\* size_segments: no index or one of them.
SizeLists == {{}} \cup {{k} : k \in 1..(MaxCuts + 1)}

Requests(img) ==
    [cut_positions : SeqsUpTo(CutPoints(img), MaxCuts),
     skip_areas : SkipAreaLists(img),
     excluded_segments : ExcludedLists,
     size_segments : SizeLists]

\* Requests with a cut position outside the image (one pixel above its top
\* or below its bottom), nothing dropped and no size suffix.
OutsideRequests(img) ==
    [cut_positions : {c \in SeqsUpTo(CutPoints(img) \cup {-1, img.height + 1}, MaxCuts) :
                         \E i \in 1..Len(c) : c[i] \notin 0..img.height},
     skip_areas : {<<>>},
     excluded_segments : {{}},
     size_segments : {{}}]

\* start_index: the first call of a batch (1) and a later one.
StartIndices == {1, MaxStartIndex}

NoRequest == [op |-> "none"]
NoResponse == [none |-> TRUE]

Skus == {<<"S", "K">>}

\* What the page sends when no SKU was typed: nothing, or blanks only.
BlankSkus == {<<>>, <<" ">>, <<" ", " ">>}

-----------------------------------------------------------------------------
(* src/image_splitter.py: the fixed-grid transform the batch applies.      *)

\* default_config of ImageSplitter.load_config
config ==
    [output_formats |->
        [instagram_square |-> [width |-> 1080, height |-> 1080],
         instagram_story |-> [width |-> 1080, height |-> 1920],
         twitter_card |-> [width |-> 1200, height |-> 630],
         facebook_post |-> [width |-> 1200, height |-> 630],
         custom |-> [width |-> 800, height |-> 600]],
     overlap_pixels |-> 0,
     quality |-> 95,
     output_format |-> "JPEG"]

\* The crop boxes of split_image's loop, for i (0-based) up to splits - 1.
RECURSIVE GridBoxes(_, _, _, _, _)
GridBoxes(i, splits, img, target_height, overlap) ==
    IF i >= splits THEN <<>>
    ELSE LET top0 == i * target_height - (i * overlap)
             bottom0 == top0 + target_height
             bottom == IF bottom0 > img.height THEN img.height ELSE bottom0
             top == IF bottom0 > img.height THEN bottom - target_height ELSE top0
         IN  <<<<0, top, img.width, bottom>>>>
             \o GridBoxes(i + 1, splits, img, target_height, overlap)

\* f"{base_name}_{output_format}_{i+1:03d}.jpg"
GridFilename(base_name, format, n) ==
    base_name \o <<"_", format, "_">> \o Format03d(n) \o <<".jpg">>

\* str(e) of the exception Pillow raises for a file it cannot decode: one
\* whose header is not an image's (no size is known), or one whose pixel
\* data ends early.
decode_error(file) ==
    IF file.height = 0 THEN "cannot identify image file" ELSE "image file is truncated"

\* Variant: a last, partial band is counted as a split.
grid_splits_rounded_up(img_height, target_height) ==
    (img_height + target_height - 1) \div target_height

\* splits = img_height // target_height
grid_splits(img_height, target_height) == img_height \div target_height

\* The state of the output location: the directory can be created and
\* written; it cannot be created (its parent is read-only, or a file has its
\* name); it exists and a write to it fails (the device is full).
Writable == "writable"
NoDirectory == "no directory"
DeviceFull == "device full"
OutputStates == {Writable, NoDirectory, DeviceFull}

\* ImageSplitter.split_image on file f, an entry of the directory, with the
\* loaded configuration cfg and the output location in state output. A
\* raised exception is the record [raised |-> message]: the format test
\* (lines 78-79) and output_path.mkdir (line 87) stand before the try block.
split_image_to(f, file, format, cfg, output) ==
    IF format \notin DOMAIN cfg.output_formats
    THEN [raised |-> "unsupported format"]
    ELSE IF output = NoDirectory
    THEN [raised |-> "permission denied"]
    ELSE IF ~file.readable
    THEN [success |-> FALSE, error |-> decode_error(file)]
    ELSE IF output = DeviceFull
            /\ grid_splits(file.height, cfg.output_formats[format].height) > 0
    THEN \* the first cropped.save raises OSError inside the try block
         [success |-> FALSE, error |-> "no space left on device"]
    ELSE LET target == cfg.output_formats[format]
             boxes == GridBoxes(0, grid_splits(file.height, target.height), file,
                                target.height, cfg.overlap_pixels)
         IN  [success |-> TRUE,
              splits_created |-> Len(boxes),
              output_directory |-> <<"output", format>>,
              details |-> [i \in 1..Len(boxes) |->
                             [index |-> i,
                              filename |-> GridFilename(Digits(f), format, i),
                              crop_box |-> boxes[i],
                              output_size |-> <<target.width, target.height>>]]]

\* split_image into an output directory that can be created and written.
split_image_with(f, file, format, cfg) == split_image_to(f, file, format, cfg, Writable)

\* split_image with the default configuration, which load_config writes when
\* no configuration file exists.
split_image(f, file, format) == split_image_with(f, file, format, config)

-----------------------------------------------------------------------------
(* src/batch_processor.py: BatchProcessor.                                 *)

SaveEvery == 50     \* if completed % 50 == 0

\* str(image_path): file f's path is its number in the directory listing.
PathOf(f) == f

\* BatchProcessor.process_single_image: the worker's task for file f (the
\* timestamp is left out).
process_single_image(f, file, format) ==
    LET result == split_image(f, file, format)
    IN  IF "raised" \in DOMAIN result
        THEN [success |-> FALSE, error |-> result.raised, source_file |-> PathOf(f)]
        ELSE IF result.success
        THEN [success |-> TRUE,
              splits_created |-> result.splits_created,
              output_directory |-> result.output_directory,
              details |-> result.details,
              source_file |-> PathOf(f)]
        ELSE [success |-> FALSE, error |-> result.error, source_file |-> PathOf(f)]

NoResumeFile == [exists |-> FALSE]
NoReport == [exists |-> FALSE]

\* BatchProcessor.save_resume_data: what json.dump leaves in the file.
save_resume_data(files) ==
    [exists |-> TRUE, processed_files |-> files, total_processed |-> Cardinality(files)]

\* The resume file after open(resume_file, 'w') has truncated it and before
\* json.dump has written the whole record: empty, or a prefix of the record.
TornResumeFile == [exists |-> TRUE, torn |-> TRUE]

\* json.load(f) returns a record (it raises JSONDecodeError for an empty or
\* cut-off file).
Loadable(disk) == disk.exists /\ "processed_files" \in DOMAIN disk

\* The resume file's processed_files as read at the start of a run.
load_resume_data(resume, disk) ==
    IF resume # "" /\ disk.exists THEN disk.processed_files ELSE {}

\* Variant: no checkpoint is due while results arrive.
checkpoint_never_due(n) == FALSE

\* if completed % 50 == 0
checkpoint_due(n) == n % SaveEvery = 0

\* Variant: the run goes on to the pool with nothing to submit.
nothing_remains_ignored(remaining) == FALSE

\* if not remaining_files: ... return self.results
nothing_remains(remaining) == remaining = <<>>

\* A filter that forgets the resume data: every scanned file remains.
filter_remaining_all(files, done) == files

\* remaining_files = [f for f in image_files if str(f) not in processed_files]
filter_remaining(files, done) == SelectSeq(files, LAMBDA f : PathOf(f) \notin done)

\* Variant: the worker appends its result to self.results itself.
results_appended_by_worker(res, result) == Append(res, result)

\* self.results as a worker thread leaves it: process_single_image builds
\* and returns its dict and does not touch self.results.
results_after_worker(res, result) == res

\* Variant: only a file whose transform succeeded is marked as processed.
mark_processed_if_success(done, path, result) ==
    IF result.success THEN done \cup {path} ELSE done

\* processed_files.add(str(image_file)): whatever the result says.
mark_processed(done, path, result) == done \cup {path}

\* A collector that keeps successful results only.
append_result_if_success(res, result) == IF result.success THEN Append(res, result) ELSE res

\* self.results.append(result)
append_result(res, result) == Append(res, result)

RECURSIVE SumSplits(_)
SumSplits(res) ==
    IF res = <<>> THEN 0 ELSE Head(res).splits_created + SumSplits(Tail(res))

\* Variant: the details list the successful results only.
processing_details_of_successes(res) == SelectSeq(res, LAMBDA r : r.success)

\* "processing_details": self.results
processing_details(res) == res

\* Variant: the rate is left a fraction of one.
success_rate_as_fraction(successful, total) ==
    IF total # 0 THEN <<successful, total>> ELSE <<0, 1>>

\* len(successful_results) / len(self.results) * 100 if self.results else 0,
\* as the pair <<numerator, denominator>>.
success_rate(successful, total) ==
    IF total # 0 THEN <<successful * 100, total>> ELSE <<0, 1>>

\* BatchProcessor.generate_detailed_report: the report dict.
generate_detailed_report(res) ==
    LET successful_results == SelectSeq(res, LAMBDA r : r.success)
        failed_results == SelectSeq(res, LAMBDA r : ~r.success)
        errors == {failed_results[i].error : i \in 1..Len(failed_results)}
        splits == {successful_results[i].splits_created : i \in 1..Len(successful_results)}
    IN  [summary |->
            [total_processed |-> Len(res),
             successful |-> Len(successful_results),
             failed |-> Len(failed_results),
             success_rate |-> success_rate(Len(successful_results), Len(res)),
             total_splits_created |-> SumSplits(successful_results)],
         error_analysis |->
            [e \in errors |->
                Cardinality({i \in 1..Len(failed_results) : failed_results[i].error = e})],
         split_statistics |->
            [n \in splits |->
                Cardinality({i \in 1..Len(successful_results) :
                                successful_results[i].splits_created = n})],
         processing_details |-> processing_details(res)]

\* A handler that builds the report from the results collected so far.
report_built_after_interrupt(old_report, res) ==
    [exists |-> TRUE, report |-> generate_detailed_report(res)]

\* main's handler of KeyboardInterrupt: it prints how to resume and exits;
\* no report is built from the results.
report_after_interrupt(old_report, res) == old_report

\* main's handler of KeyboardInterrupt leaves the resume file as it is.
resume_after_interrupt(disk, resume, done) == disk

-----------------------------------------------------------------------------
(* The batch run's inputs.                                                 *)

CorruptFile == [readable |-> FALSE, width |-> 0, height |-> 0]
GoodFile == [readable |-> TRUE, width |-> 1080, height |-> 2500]
FileKinds == {CorruptFile, GoodFile}

\* The concrete scenario: five files of which the third cannot be decoded.
ScenarioDirectory == <<GoodFile, GoodFile, CorruptFile, GoodFile, GoodFile>>

Directories == SeqsUpTo(FileKinds, MaxFiles) \cup {ScenarioDirectory}

Files == 1..Len(directory)

NoFuture == [state |-> "none"]

Pending == {f \in Files : futures[f].state = "pending"}
Running == {f \in Files : futures[f].state = "running"}
Finished == {f \in Files : futures[f].state = "finished"}
Yielded == {f \in Files : futures[f].state = "yielded"}

\* The files whose transform was started in this process.
Started == Running \cup Finished \cup Yielded

-----------------------------------------------------------------------------
(* The planner is idle while a batch runs, and the other way round.        *)

PlannerIdle ==
    /\ current_image = NoImage
    /\ current_sku = <<>>
    /\ uploaded_images = <<>>
    /\ request = NoRequest
    /\ response = NoResponse
    /\ codec_calls = <<>>
    /\ effects = NoEffects
    /\ preview = NoResponse

\* No call of ImageSplitter.split_image on its own.
GridIdle ==
    /\ grid_call = NoRequest
    /\ grid_result = NoResponse

BatchIdle ==
    /\ input_exists = FALSE
    /\ directory = <<>>
    /\ output_format = ""
    /\ max_workers = 0
    /\ resume_file = ""
    /\ resume_disk = NoResumeFile
    /\ pc = "idle"
    /\ image_files = <<>>
    /\ processed_files = {}
    /\ remaining_files = <<>>
    /\ futures = <<>>
    /\ results = <<>>
    /\ completed = 0
    /\ report = NoReport
    /\ interrupted = FALSE
    /\ exit_code = -1
    /\ run = 0
    /\ history = <<>>

-----------------------------------------------------------------------------
(* The planner as a state machine: an image is loaded and a SKU set, and   *)
(* one call is made on that session; the state keeps the call's arguments  *)
(* and the dict it returned.                                               *)

\* split_by_positions has been called.
CalledSplitByPositions == request # NoRequest /\ request.op = "split_by_positions"

PlannerInit ==
    /\ current_image \in Images
    /\ current_sku \in {set_sku(s) : s \in Skus}
    /\ uploaded_images = <<current_image>>
    /\ request = NoRequest
    /\ response = NoResponse
    /\ codec_calls = <<>>
    /\ effects = NoEffects
    /\ preview = NoResponse
    /\ GridIdle
    /\ BatchIdle

SplitByPositions ==
    /\ request = NoRequest
    /\ \E a \in Requests(current_image) \cup OutsideRequests(current_image),
          accepts_empty \in BOOLEAN :
        /\ request' = [op |-> "split_by_positions", args |-> a]
        /\ response' = split_by_positions(current_image, current_sku, a, accepts_empty)
        /\ codec_calls' = crops_by_positions(current_image, current_sku, a, accepts_empty)
        /\ effects' = effects_by_positions(current_image, current_sku, a, accepts_empty)
        /\ UNCHANGED <<current_image, current_sku, uploaded_images, preview, grid_vars,
                       batch_vars>>

SplitWithGlobalNumbering ==
    /\ request = NoRequest
    /\ \E a \in Requests(current_image), start_index \in StartIndices,
          accepts_empty \in BOOLEAN :
        /\ request' = [op |-> "split_with_global_numbering", args |-> a,
                       start_index |-> start_index]
        /\ response' = split_with_global_numbering(current_image, current_sku, a,
                                                   start_index, accepts_empty)
        /\ codec_calls' = crops_with_global_numbering(current_image, current_sku, a,
                                                      start_index, accepts_empty)
        /\ effects' = effects_with_global_numbering(current_image, current_sku, a,
                                                    start_index, accepts_empty)
        /\ UNCHANGED <<current_image, current_sku, uploaded_images, preview, grid_vars,
                       batch_vars>>

PlannerNext == SplitByPositions \/ SplitWithGlobalNumbering

SpecPlanner == PlannerInit /\ [][PlannerNext]_vars

-----------------------------------------------------------------------------
(* The page asks for the preview of the request it has sent to             *)
(* split_by_positions (the images are at most 800 wide, so that the page's *)
(* coordinates are the image's).                                           *)

PreviewSplits ==
    /\ CalledSplitByPositions
    /\ preview = NoResponse
    /\ preview' = preview_splits(current_image, request.args.cut_positions,
                                 request.args.skip_areas)
    /\ UNCHANGED <<current_image, current_sku, uploaded_images, request, response,
                   codec_calls, effects, grid_vars, batch_vars>>

PreviewNext == SplitByPositions \/ PreviewSplits

SpecPreview == PlannerInit /\ [][PreviewNext]_vars

-----------------------------------------------------------------------------
(* A session with several uploaded images, on which batch_process is       *)
(* called once.                                                            *)

GenericImages == {img \in Images : img # ScenarioImage}

\* One or two uploaded images.
UploadLists ==
    {<<i>> : i \in GenericImages} \cup {<<i, j>> : i \in GenericImages, j \in GenericImages}

\* The skip areas of a batch request: none, or one area one pixel high at
\* the top or at the bottom of the tallest image.
BatchSkipAreaLists ==
    {<<>>} \cup {<<[start |-> s, end |-> s + 1]>> : s \in {0, MaxHeight - 1}}

\* The one request applied to every image: the cut positions are those of
\* the tallest image, in the order the page sends them (top to bottom).
BatchRequests ==
    [cut_positions : {c \in SeqsUpTo(0..MaxHeight, MaxCuts) : c = sorted(c)},
     skip_areas : BatchSkipAreaLists,
     excluded_segments : ExcludedLists,
     size_segments : SizeLists]

UploadInit ==
    /\ uploaded_images \in UploadLists
    /\ current_image = uploaded_images[1]
    /\ current_sku \in {set_sku(s) : s \in Skus}
    /\ request = NoRequest
    /\ response = NoResponse
    /\ codec_calls = <<>>
    /\ effects = NoEffects
    /\ preview = NoResponse
    /\ GridIdle
    /\ BatchIdle

\* batch_process puts current_image back after every image (lines 370-373).
BatchProcess ==
    /\ request = NoRequest
    /\ \E a \in BatchRequests, global_numbering \in BOOLEAN, accepts_empty \in BOOLEAN :
        /\ request' = [op |-> "batch_process", args |-> a,
                       global_numbering |-> global_numbering]
        /\ response' = batch_process(uploaded_images, current_sku, a, global_numbering,
                                     accepts_empty)
        /\ codec_calls' = crops_of_batch_process(uploaded_images, current_sku, a,
                                                 global_numbering, accepts_empty)
        /\ effects' = effects_of_batch_process(uploaded_images, current_sku, a,
                                               global_numbering, accepts_empty)
        /\ UNCHANGED <<current_image, current_sku, uploaded_images, preview, grid_vars,
                       batch_vars>>

UploadNext == BatchProcess

SpecUpload == UploadInit /\ [][UploadNext]_vars

-----------------------------------------------------------------------------
(* A session in which no SKU was set, or only blanks were sent as the SKU: *)
(* images are uploaded (or none is), and split_by_positions or             *)
(* batch_process is called once.                                           *)

NoSkuInit ==
    /\ uploaded_images \in UploadLists \cup {<<>>}
    /\ current_image = IF uploaded_images = <<>> THEN NoImage ELSE uploaded_images[1]
    /\ current_sku \in {set_sku(s) : s \in BlankSkus}
    /\ request = NoRequest
    /\ response = NoResponse
    /\ codec_calls = <<>>
    /\ effects = NoEffects
    /\ preview = NoResponse
    /\ GridIdle
    /\ BatchIdle

NoSkuNext == SplitByPositions \/ BatchProcess

SpecNoSku == NoSkuInit /\ [][NoSkuNext]_vars

-----------------------------------------------------------------------------
(* ImageSplitter.split_image called on one file, with a configuration file *)
(* that sets the "custom" format's size and overlap_pixels.                *)

\* The scenario of the grid planner: height 3000, target height 1000,
\* overlap 0.
ScenarioGridFile == [readable |-> TRUE, width |-> 750, height |-> 3000]
ScenarioGridConfig ==
    [config EXCEPT !.output_formats.custom = [width |-> 750, height |-> 1000]]

GridFiles ==
    {[readable |-> TRUE, width |-> ImageWidth, height |-> h] : h \in 0..MaxGridHeight}
    \cup {CorruptFile}

GridConfigs ==
    {[config EXCEPT !.output_formats.custom = [width |-> ImageWidth, height |-> t],
                    !.overlap_pixels = o] :
        t \in 1..MaxTargetHeight, o \in 0..MaxOverlap}

\* The formats asked for: one the configuration has and one it has not.
GridFormats == {"custom", "webp"}

GridCalls ==
    [file : GridFiles, format : GridFormats, config : GridConfigs, output : OutputStates]
    \cup {[file |-> ScenarioGridFile, format |-> "custom", config |-> ScenarioGridConfig,
            output |-> Writable]}

GridInit ==
    /\ grid_call \in GridCalls
    /\ grid_result = NoResponse
    /\ PlannerIdle
    /\ BatchIdle

SplitImage ==
    /\ grid_result = NoResponse
    /\ grid_result' = split_image_to(1, grid_call.file, grid_call.format, grid_call.config,
                                     grid_call.output)
    /\ UNCHANGED <<grid_call, planner_vars, batch_vars>>

GridNext == SplitImage

SpecGrid == GridInit /\ [][GridNext]_vars

-----------------------------------------------------------------------------
(* The batch coordinator as a state machine: main() of batch_processor.py  *)
(* in one process after the other on the same directory, the pool's        *)
(* workers, and the user's interrupt.                                      *)
(*                                                                         *)
(* pc: "scan" (lines 47-60), "filter" (62-76), "submit" (82-87), "collect" *)
(* (89-130, the loop over as_completed), "report" (238), "shutdown" (a     *)
(* KeyboardInterrupt is propagating: the with block's exit joins the pool, *)
(* then main's handler runs), "exited".                                    *)

OutputFormats == {"instagram_square", "webp"}
ResumeFiles == {"", "resume.json"}

\* The resume files an earlier process may have left.
ResumeDisks(dir, resume) ==
    IF resume = "" \/ dir = ScenarioDirectory THEN {NoResumeFile}
    ELSE {NoResumeFile} \cup {save_resume_data(S) : S \in SUBSET (1..Len(dir))}

\* A fresh process: BatchProcessor.__init__ and the locals not yet set.
FreshProcess ==
    /\ pc = "scan"
    /\ image_files = <<>>
    /\ processed_files = {}
    /\ remaining_files = <<>>
    /\ futures = [f \in 1..Len(directory) |-> NoFuture]
    /\ results = <<>>
    /\ completed = 0
    /\ report = NoReport
    /\ interrupted = FALSE
    /\ exit_code = -1

BatchInit ==
    /\ PlannerIdle
    /\ GridIdle
    /\ input_exists \in BOOLEAN
    /\ directory \in Directories
    /\ output_format \in OutputFormats
    /\ max_workers = MaxWorkers
    /\ resume_file \in ResumeFiles
    /\ ~input_exists => (directory = <<>> /\ output_format = "instagram_square")
    /\ resume_disk \in ResumeDisks(directory, resume_file)
    /\ FreshProcess
    /\ run = 1
    /\ history = <<>>

\* What a process leaves in the history when it exits with status code.
HistoryEntry(code, rep) ==
    [exit_code |-> code,
     interrupted |-> interrupted,
     transforms |-> Cardinality(Started),
     reported |-> rep.exists,
     successful |-> IF rep.exists THEN rep.report.summary.successful ELSE 0,
     failed |-> IF rep.exists THEN rep.report.summary.failed ELSE 0]

\* Lines 47-60; a missing directory raises FileNotFoundError, which main's
\* except Exception turns into exit status 1.
Scan ==
    /\ pc = "scan"
    /\ IF input_exists
       THEN /\ image_files' = [i \in 1..Len(directory) |-> i]
            /\ pc' = "filter"
            /\ UNCHANGED <<exit_code, history>>
       ELSE /\ pc' = "exited"
            /\ exit_code' = 1
            /\ history' = Append(history, HistoryEntry(1, report))
            /\ UNCHANGED image_files
    /\ UNCHANGED <<planner_vars, grid_vars, batch_inputs, resume_disk, processed_files,
                   remaining_files, futures, results, completed, report, interrupted, run>>

\* Lines 62-76: load the resume file, filter, and return early when nothing
\* remains.
Filter ==
    /\ pc = "filter"
    /\ IF resume_file # "" /\ resume_disk.exists /\ ~Loadable(resume_disk)
       THEN \* json.load raises; main's except Exception exits with status 1
            /\ pc' = "exited"
            /\ exit_code' = 1
            /\ history' = Append(history, HistoryEntry(1, report))
            /\ UNCHANGED <<processed_files, remaining_files>>
       ELSE /\ processed_files' = load_resume_data(resume_file, resume_disk)
            /\ remaining_files' = filter_remaining(image_files, processed_files')
            /\ pc' = IF nothing_remains(remaining_files') THEN "report" ELSE "submit"
            /\ UNCHANGED <<exit_code, history>>
    /\ UNCHANGED <<planner_vars, grid_vars, batch_inputs, resume_disk, image_files, futures,
                   results, completed, report, interrupted, run>>

\* Lines 84-87: executor.submit for the next remaining file.
Submit ==
    /\ pc = "submit"
    /\ LET unsubmitted == SelectSeq(remaining_files, LAMBDA f : futures[f].state = "none")
       IN  /\ futures' = [futures EXCEPT ![Head(unsubmitted)] = [state |-> "pending"]]
           /\ pc' = IF Len(unsubmitted) = 1 THEN "collect" ELSE "submit"
    /\ UNCHANGED <<planner_vars, grid_vars, batch_inputs, resume_disk, image_files, processed_files,
                   remaining_files, results, completed, report, interrupted, exit_code,
                   run, history>>

\* Variant: the pool never gets a thread to run a work item.
idle_thread_never(running, workers) == FALSE

\* ThreadPoolExecutor(max_workers=self.max_workers): a thread is free, or may
\* still be created, while fewer than max_workers work items are running.
idle_thread(running, workers) == Cardinality(running) < workers

\* A pool thread takes the oldest queued work item. The queue is served
\* until it is empty, also while the pool is being shut down.
WorkerStart ==
    /\ pc \in {"submit", "collect", "shutdown"}
    /\ Pending # {}
    /\ idle_thread(Running, max_workers)
    /\ LET f == CHOOSE g \in Pending : \A h \in Pending : g <= h
       IN  futures' = [futures EXCEPT ![f] = [state |-> "running"]]
    /\ UNCHANGED <<planner_vars, grid_vars, batch_inputs, resume_disk, pc, image_files,
                   processed_files, remaining_files, results, completed, report,
                   interrupted, exit_code, run, history>>

\* A pool thread finishes process_single_image and sets the future's result.
WorkerFinish ==
    \E f \in Running :
        /\ futures' = [futures EXCEPT ![f] =
               [state |-> "finished",
                result |-> process_single_image(f, directory[f], output_format)]]
        /\ results' = results_after_worker(results, futures'[f].result)
        /\ UNCHANGED <<planner_vars, grid_vars, batch_inputs, resume_disk, pc, image_files,
                       processed_files, remaining_files, completed, report,
                       interrupted, exit_code, run, history>>

\* Lines 90-121: as_completed yields a finished future and the loop body
\* runs (process_single_image never raises, so neither does future.result()).
Collect ==
    /\ pc = "collect"
    /\ \E f \in Finished :
        /\ results' = append_result(results, futures[f].result)
        /\ completed' = completed + 1
        /\ futures' = [futures EXCEPT ![f].state = "yielded"]
        /\ IF resume_file # ""
           THEN /\ processed_files' = mark_processed(processed_files, PathOf(f),
                                                     futures[f].result)
                /\ resume_disk' = IF checkpoint_due(completed')
                                  THEN save_resume_data(processed_files')
                                  ELSE resume_disk
           ELSE UNCHANGED <<processed_files, resume_disk>>
    /\ UNCHANGED <<planner_vars, grid_vars, batch_inputs, pc, image_files, remaining_files, report,
                   interrupted, exit_code, run, history>>

\* Lines 131-139: the loop has yielded every future; the pool is left, the
\* resume file is saved a last time and the results are returned.
FinalSave ==
    /\ pc = "collect"
    /\ \A i \in 1..Len(remaining_files) : futures[remaining_files[i]].state = "yielded"
    /\ resume_disk' = IF resume_file # "" THEN save_resume_data(processed_files)
                      ELSE resume_disk
    /\ pc' = "report"
    /\ UNCHANGED <<planner_vars, grid_vars, batch_inputs, image_files, processed_files,
                   remaining_files, futures, results, completed, report, interrupted,
                   exit_code, run, history>>

\* main, line 238, and the normal end of the process.
Report ==
    /\ pc = "report"
    /\ report' = [exists |-> TRUE, report |-> generate_detailed_report(results)]
    /\ exit_code' = 0
    /\ pc' = "exited"
    /\ history' = Append(history, HistoryEntry(0, report'))
    /\ UNCHANGED <<planner_vars, grid_vars, batch_inputs, resume_disk, image_files, processed_files,
                   remaining_files, futures, results, completed, interrupted, run>>

\* The user's Ctrl-C: KeyboardInterrupt is raised in the main thread, which
\* no except Exception catches, and starts to propagate.
Interrupt ==
    /\ pc \in {"scan", "filter", "submit", "collect", "report"}
    /\ interrupted' = TRUE
    /\ pc' = "shutdown"
    /\ UNCHANGED <<planner_vars, grid_vars, batch_inputs, resume_disk, image_files, processed_files,
                   remaining_files, futures, results, completed, report, exit_code,
                   run, history>>

\* The user's Ctrl-C while save_resume_data (lines 148-149) is writing the
\* periodic checkpoint: the loop body has run up to the save, the file is
\* truncated and not yet whole, and the KeyboardInterrupt propagates.
InterruptPeriodicSave ==
    /\ pc = "collect"
    /\ resume_file # ""
    /\ checkpoint_due(completed + 1)
    /\ \E f \in Finished :
        /\ results' = append_result(results, futures[f].result)
        /\ completed' = completed + 1
        /\ futures' = [futures EXCEPT ![f].state = "yielded"]
        /\ processed_files' = mark_processed(processed_files, PathOf(f), futures[f].result)
    /\ resume_disk' = TornResumeFile
    /\ interrupted' = TRUE
    /\ pc' = "shutdown"
    /\ UNCHANGED <<planner_vars, grid_vars, batch_inputs, image_files, remaining_files,
                   report, exit_code, run, history>>

\* The same while the final save (lines 133-134) is writing.
InterruptFinalSave ==
    /\ pc = "collect"
    /\ resume_file # ""
    /\ \A i \in 1..Len(remaining_files) : futures[remaining_files[i]].state = "yielded"
    /\ resume_disk' = TornResumeFile
    /\ interrupted' = TRUE
    /\ pc' = "shutdown"
    /\ UNCHANGED <<planner_vars, grid_vars, batch_inputs, image_files, processed_files,
                   remaining_files, futures, results, completed, report, exit_code,
                   run, history>>

\* The with block's exit (shutdown(wait=True)) returns once the pool has run
\* every submitted work item; then main's handler (lines 240-245) prints the
\* hint and exits with status 1.
ExitAfterInterrupt ==
    /\ pc = "shutdown"
    /\ Pending = {} /\ Running = {}
    /\ report' = report_after_interrupt(report, results)
    /\ resume_disk' = resume_after_interrupt(resume_disk, resume_file, processed_files)
    /\ exit_code' = 1
    /\ pc' = "exited"
    /\ history' = Append(history, HistoryEntry(1, report'))
    /\ UNCHANGED <<planner_vars, grid_vars, batch_inputs, image_files, processed_files,
                   remaining_files, futures, results, completed, interrupted, run>>

\* The tool is started again on the same directory with the same arguments.
NewRun ==
    /\ pc = "exited"
    /\ run < MaxRuns
    /\ run' = run + 1
    /\ pc' = "scan"
    /\ image_files' = <<>>
    /\ processed_files' = {}
    /\ remaining_files' = <<>>
    /\ futures' = [f \in 1..Len(directory) |-> NoFuture]
    /\ results' = <<>>
    /\ completed' = 0
    /\ report' = NoReport
    /\ interrupted' = FALSE
    /\ exit_code' = -1
    /\ UNCHANGED <<planner_vars, grid_vars, batch_inputs, resume_disk, history>>

BatchNext ==
    \/ Scan \/ Filter \/ Submit \/ WorkerStart \/ WorkerFinish \/ Collect
    \/ FinalSave \/ Report \/ Interrupt \/ InterruptFinalSave \/ ExitAfterInterrupt
    \/ NewRun

SpecBatch == BatchInit /\ [][BatchNext]_vars

-----------------------------------------------------------------------------
(* One batch process that no interrupt reaches: the main thread keeps      *)
(* running, the pool's threads are scheduled, and every call of            *)
(* process_single_image returns.                                           *)

MainStep == Scan \/ Filter \/ Submit \/ Collect \/ FinalSave \/ Report

UninterruptedNext == MainStep \/ WorkerStart \/ WorkerFinish

SpecUninterrupted ==
    /\ BatchInit
    /\ [][UninterruptedNext]_vars
    /\ WF_vars(MainStep)
    /\ WF_vars(WorkerStart)
    /\ WF_vars(WorkerFinish)

-----------------------------------------------------------------------------
(* generate_detailed_report called at the normal end of a batch whose      *)
(* files differ in height and in the way they fail.                        *)

\* A file whose pixel data ends early: the size is read, the crop raises.
TruncatedFile == [readable |-> FALSE, width |-> 1080, height |-> 2500]

\* A file one band high.
ShortFile == [readable |-> TRUE, width |-> 1080, height |-> 1080]

ReportFileKinds == {CorruptFile, TruncatedFile, GoodFile, ShortFile}

\* The batch has collected every file's result, in the directory's order.
ReportInit ==
    /\ PlannerIdle
    /\ GridIdle
    /\ input_exists = TRUE
    /\ directory \in SeqsUpTo(ReportFileKinds, MaxFiles)
    /\ output_format = "instagram_square"
    /\ max_workers = MaxWorkers
    /\ resume_file = ""
    /\ resume_disk = NoResumeFile
    /\ pc = "report"
    /\ image_files = [i \in 1..Len(directory) |-> i]
    /\ processed_files = {}
    /\ remaining_files = image_files
    /\ results = [i \in 1..Len(directory) |->
                    process_single_image(i, directory[i], output_format)]
    /\ futures = [i \in 1..Len(directory) |-> [state |-> "yielded", result |-> results[i]]]
    /\ completed = Len(directory)
    /\ report = NoReport
    /\ interrupted = FALSE
    /\ exit_code = -1
    /\ run = 1
    /\ history = <<>>

ReportNext == Report

SpecReport == ReportInit /\ [][ReportNext]_vars

-----------------------------------------------------------------------------
(* A batch long enough for the periodic checkpoint, taken up two           *)
(* completions before the checkpoint is due: with a resume file, every     *)
(* remaining file is submitted, the results of the first SaveEvery - 2 of  *)
(* them have been collected in the directory's order, and the last three   *)
(* wait in the pool's queue.                                               *)

\* A file lower than the target height: split_image succeeds with no split.
SmallFile == [readable |-> TRUE, width |-> 1080, height |-> 500]

\* The paths loaded from the resume file: none, or the first two files'.
LoadedPaths == {{}, {PathOf(1), PathOf(2)}}

CheckpointInit ==
    /\ PlannerIdle
    /\ GridIdle
    /\ input_exists = TRUE
    /\ output_format = "instagram_square"
    /\ max_workers = MaxWorkers
    /\ resume_file = "resume.json"
    /\ \E loaded \in LoadedPaths :
        LET n == Cardinality(loaded) + SaveEvery + 1
            collected == SaveEvery - 2
        IN  /\ directory = [f \in 1..n |-> SmallFile]
            /\ resume_disk = IF loaded = {} THEN NoResumeFile ELSE save_resume_data(loaded)
            /\ image_files = [i \in 1..n |-> i]
            /\ remaining_files = filter_remaining(image_files, loaded)
            /\ results = [i \in 1..collected |->
                            process_single_image(remaining_files[i],
                                                 directory[remaining_files[i]],
                                                 output_format)]
            /\ processed_files = loaded \cup {results[i].source_file : i \in 1..collected}
            /\ futures = [f \in 1..n |->
                            IF PathOf(f) \in loaded THEN NoFuture
                            ELSE IF PathOf(f) \in processed_files
                            THEN [state |-> "yielded",
                                  result |-> process_single_image(f, directory[f],
                                                                  output_format)]
                            ELSE [state |-> "pending"]]
            /\ completed = collected
    /\ pc = "collect"
    /\ report = NoReport
    /\ interrupted = FALSE
    /\ exit_code = -1
    /\ run = 1
    /\ history = <<>>

CheckpointNext ==
    \/ WorkerStart \/ WorkerFinish \/ Collect \/ FinalSave \/ Report
    \/ Interrupt \/ InterruptPeriodicSave \/ InterruptFinalSave \/ ExitAfterInterrupt

SpecCheckpoint == CheckpointInit /\ [][CheckpointNext]_vars

-----------------------------------------------------------------------------
(* Vocabulary of the planner's properties. pos is the boundary list of the *)
(* call that was made, args its arguments.                                 *)

Called == request # NoRequest
CalledSplit == Called /\ request.op = "split_by_positions"
Succeeded == Called /\ "success" \in DOMAIN response

Bounds == sorted_positions(request.args.cut_positions, current_image.height)

\* The overlap of interval k with a skip area, stated on its own terms: the
\* area ends below the interval's top and starts above its bottom.
OverlapsSkip(pos, k, area) == pos[k] < area.end /\ area.start < pos[k + 1]

DroppedBySkip(pos, k, args) ==
    \E j \in 1..Len(args.skip_areas) : OverlapsSkip(pos, k, args.skip_areas[j])

Dropped(pos, k, args) == k \in args.excluded_segments \/ DroppedBySkip(pos, k, args)

\* The (index, top, bottom) triples a response reports, base artifacts only.
Reported(details) ==
    {<<details[i].index, details[i].crop_box[2], details[i].crop_box[4]>> :
        i \in {j \in 1..Len(details) : ~details[j].has_size_suffix}}

RECURSIVE SumHeights(_, _)
SumHeights(pos, k) ==
    IF k = 0 THEN 0 ELSE (pos[k + 1] - pos[k]) + SumHeights(pos, k - 1)

IsScenario(cuts, skips, excluded) ==
    /\ CalledSplit
    /\ current_image = ScenarioImage
    /\ request.args.cut_positions = cuts
    /\ request.args.skip_areas = skips
    /\ request.args.excluded_segments = excluded

\* The same call with nothing excluded and no skip area.
WithoutDrops ==
    split_by_positions(current_image, current_sku,
        [request.args EXCEPT !.skip_areas = <<>>, !.excluded_segments = {}], TRUE)

-----------------------------------------------------------------------------
(* C1: in split_by_positions the interval between the k-th and (k+1)-th    *)
(* boundary is reported with index k and file number k, whatever is        *)
(* dropped: every reported segment is reported identically by the same     *)
(* call without drops. Height 3000 with cuts 1000, 2000 gives (0,1000)#1,  *)
(* (1000,2000)#2, (2000,3000)#3, and excluding 2 leaves #1 and #3 with an  *)
(* excluded count of 1.                                                    *)
C1_IndexStableUnderDrops ==
    (CalledSplit /\ Succeeded) =>
        LET pos == Bounds
            det == response.details
            full == {WithoutDrops.details[j] : j \in 1..Len(WithoutDrops.details)}
        IN  /\ \A i \in 1..Len(det) :
                 LET d == det[i]
                 IN  /\ d.index \in 1..(Len(pos) - 1)
                     /\ d.crop_box[2] = pos[d.index]
                     /\ d.crop_box[4] = pos[d.index + 1]
                     /\ d.filename = (IF d.has_size_suffix
                                      THEN SizeFilename(current_sku, d.index)
                                      ELSE BaseFilename(current_sku, d.index))
                     /\ d \in full
            /\ (IsScenario(<<1000, 2000>>, <<>>, {}) =>
                  Reported(det) = {<<1, 0, 1000>>, <<2, 1000, 2000>>, <<3, 2000, 3000>>})
            /\ (IsScenario(<<1000, 2000>>, <<>>, {2}) =>
                  /\ Reported(det) = {<<1, 0, 1000>>, <<3, 2000, 3000>>}
                  /\ response.excluded_segments = 1)

\* Segment 2 was dropped and segment 3 is reported, at its own boundaries.
C1_Witness ==
    /\ IsScenario(<<1000, 2000>>, <<>>, {2})
    /\ Succeeded
    /\ <<3, 2000, 3000>> \in Reported(response.details)

(* C2: the intervals between consecutive boundaries, dropped ones          *)
(* included, are well formed and their heights sum to the image height,    *)
(* for every list of cut positions in [0, height].                         *)
C2_HeightsSumToImageHeight ==
    (Called /\ \A i \in 1..Len(request.args.cut_positions) :
                  request.args.cut_positions[i] \in 0..current_image.height) =>
        LET pos == Bounds
        IN  /\ \A k \in 1..(Len(pos) - 1) : pos[k] <= pos[k + 1]
            /\ SumHeights(pos, Len(pos) - 1) = current_image.height

\* Unsorted cuts, and a dropped interval among the three they form.
C2_Witness ==
    /\ CalledSplit
    /\ Len(request.args.cut_positions) = 2
    /\ request.args.cut_positions[1] > request.args.cut_positions[2]
    /\ request.args.excluded_segments = {2}
    /\ Succeeded

(* C3: a skip area whose start equals its end drops no segment, in         *)
(* split_by_positions and in _split_with_global_numbering: with only such  *)
(* skip areas every interval that is not excluded is reported.             *)
C3_ZeroWidthSkipDropsNothing ==
    (Succeeded /\ \A j \in 1..Len(request.args.skip_areas) :
                     request.args.skip_areas[j].start = request.args.skip_areas[j].end) =>
        Cardinality({i \in 1..Len(response.details) :
                        ~response.details[i].has_size_suffix})
          = Cardinality({k \in 1..(Len(Bounds) - 1) :
                            k \notin request.args.excluded_segments})

(* C4: split_by_positions drops interval k exactly when k is excluded or   *)
(* some skip area overlaps it; an area that ends at its top or starts at   *)
(* its bottom does not. Height 3000, cuts 1000, 2000 and the skip area     *)
(* 900..1100 leave only #3.                                                *)
C4_DroppedExactlyWhenExcludedOrOverlapped ==
    (CalledSplit /\ Succeeded) =>
        LET pos == Bounds
            args == request.args
            shown == {t[1] : t \in Reported(response.details)}
        IN  /\ shown = {k \in 1..(Len(pos) - 1) : ~Dropped(pos, k, args)}
            /\ \A k \in 1..(Len(pos) - 1) :
                 (/\ k \notin args.excluded_segments
                  /\ \A j \in 1..Len(args.skip_areas) :
                        \/ args.skip_areas[j].end = pos[k]
                        \/ args.skip_areas[j].start = pos[k + 1])
                 => k \in shown
            /\ (IsScenario(<<1000, 2000>>, <<[start |-> 900, end |-> 1100]>>, {}) =>
                  Reported(response.details) = {<<3, 2000, 3000>>})

\* A skip area that touches the bottom of a segment, which survives, while the
\* next segment is dropped by it.
C4_Witness ==
    /\ CalledSplit /\ Succeeded
    /\ Len(request.args.skip_areas) = 1
    /\ request.args.excluded_segments = {}
    /\ Len(Bounds) >= 3
    /\ request.args.skip_areas[1].start = Bounds[2]
    /\ Bounds[1] < Bounds[2]
    /\ DroppedBySkip(Bounds, 2, request.args)
    /\ <<1, Bounds[1], Bounds[2]>> \in Reported(response.details)

\* The details a response must hold for the surviving intervals ks (in
\* order): one entry per interval, and a second one, flagged, for an interval
\* in size_segments. Each entry is <<interval, flag>>.
RECURSIVE Expected(_, _)
Expected(ks, sizes) ==
    IF ks = <<>> THEN <<>>
    ELSE (IF Head(ks) \in sizes
          THEN <<<<Head(ks), FALSE>>, <<Head(ks), TRUE>>>>
          ELSE <<<<Head(ks), FALSE>>>>)
         \o Expected(Tail(ks), sizes)

RECURSIVE SurvivingFrom(_, _, _)
SurvivingFrom(pos, k, args) ==
    IF k > Len(pos) - 1 THEN <<>>
    ELSE (IF Dropped(pos, k, args) THEN <<>> ELSE <<k>>) \o SurvivingFrom(pos, k + 1, args)

(* C5: a surviving segment whose index is in size_segments yields exactly  *)
(* two outputs, one after the other: the same crop_box, dimensions and     *)
(* index, different file names of which the second ends in "-size.jpg",    *)
(* has_size_suffix False then True; any other surviving segment yields     *)
(* exactly one output, not flagged.                                        *)
C5_SizeSuffixYieldsTwoOutputs ==
    Succeeded =>
        LET pos == Bounds
            det == response.details
            w == current_image.width
            exp == Expected(SurvivingFrom(pos, 1, request.args), request.args.size_segments)
        IN  /\ Len(det) = Len(exp)
            /\ \A i \in 1..Len(det) :
                 /\ det[i].has_size_suffix = exp[i][2]
                 /\ det[i].crop_box = <<0, pos[exp[i][1]], w, pos[exp[i][1] + 1]>>
                 /\ det[i].dimensions = <<w, pos[exp[i][1] + 1] - pos[exp[i][1]]>>
                 /\ det[i].has_size_suffix =>
                      /\ i > 1
                      /\ ~det[i - 1].has_size_suffix
                      /\ det[i - 1].crop_box = det[i].crop_box
                      /\ det[i - 1].dimensions = det[i].dimensions
                      /\ det[i - 1].index = det[i].index
                      /\ det[i - 1].filename # det[i].filename
                      /\ det[i].filename[Len(det[i].filename)] = "-size.jpg"
                      /\ det[i - 1].filename[Len(det[i - 1].filename)] = ".jpg"
            /\ Cardinality({det[i].filename : i \in 1..Len(det)}) = Len(det)

\* One surviving segment with the size suffix (two outputs) beside one without.
C5_Witness ==
    /\ Succeeded
    /\ Len(response.details) = 3
    /\ response.details[2].has_size_suffix
    /\ ~response.details[3].has_size_suffix
    /\ response.details[1].crop_box = response.details[2].crop_box

-----------------------------------------------------------------------------
(* Vocabulary of the batch coordinator's properties.                       *)

\* Some earlier process on this directory ran to its normal end.
CompletedBefore ==
    \E i \in 1..Len(history) : i < run /\ history[i].exit_code = 0

\* The files the pool ever holds in this process.
Submitted == Pending \cup Started

\* This process ended normally, with its report written.
BatchCompleted == pc = "exited" /\ exit_code = 0 /\ report.exists

\* The entries of res that belong to file f.
EntriesOf(res, f) == {i \in 1..Len(res) : res[i].source_file = PathOf(f)}

\* The transform of file f fails: it cannot be decoded (a returned failure)
\* or the output format is unknown (a raised ValueError).
TransformFails(f) ==
    \/ ~directory[f].readable
    \/ output_format \notin DOMAIN config.output_formats

\* The paths the resume file on disk holds.
OnDisk == IF Loadable(resume_disk) THEN resume_disk.processed_files ELSE {}

-----------------------------------------------------------------------------
(* C6  (as stated) A second run over the same files with the resume file   *)
(* of a completed first run invokes no transform and reports the success   *)
(* and failure counts the first run reported.                               *)
C6_SecondRunReportsFirstRunCounts ==
    (/\ resume_file # ""
     /\ Len(history) >= 2
     /\ history[1].exit_code = 0
     /\ history[2].exit_code = 0)
    => /\ history[2].transforms = 0
       /\ history[2].successful = history[1].successful
       /\ history[2].failed = history[1].failed

(* C6  (amended) With a resume file configured, a run that follows a       *)
(* completed run over the same files submits and starts no transform and   *)
(* leaves the resume file as it is; its results are empty, so the report   *)
(* it builds counts 0 processed, 0 successes and 0 failures whatever the   *)
(* earlier run reported.                                                    *)
C6_SecondRunProcessesNothingAndReportsZero ==
    (resume_file # "" /\ CompletedBefore)
    => /\ Submitted = {}
       /\ results = <<>>
       /\ pc \notin {"scan"} => processed_files \subseteq OnDisk
       /\ pc \notin {"scan", "filter"} => remaining_files = <<>>
       /\ report.exists =>
            /\ report.report.summary.total_processed = 0
            /\ report.report.summary.successful = 0
            /\ report.report.summary.failed = 0
            /\ report.report.processing_details = <<>>

\* The second run has reported after a first run that reported some file.
C6_Witness ==
    /\ resume_file # ""
    /\ run = 2
    /\ Len(history) = 2
    /\ history[1].exit_code = 0
    /\ history[1].successful > 0
    /\ history[1].failed > 0
    /\ BatchCompleted

(* C7  A failing transform (a returned failure or a raised exception) does *)
(* not abort the batch: a run that is not interrupted ends normally, its   *)
(* results hold exactly one entry for each remaining file, a failing       *)
(* file's entry carries the error message and no splits_created field, and *)
(* the report counts them; for 5 files of which file 3 fails the report    *)
(* has 4 successes and 1 failure and processing_details has file 3's       *)
(* failed entry.                                                            *)
C7_FailureDoesNotAbortTheBatch ==
    /\ (/\ pc = "exited"
        /\ input_exists
        /\ ~interrupted
        /\ resume_file # "" /\ resume_disk.exists => Loadable(resume_disk))
       => BatchCompleted
    /\ \A i \in 1..Len(results) :
          LET r == results[i]
          IN  IF TransformFails(r.source_file)
              THEN ~r.success /\ "error" \in DOMAIN r /\ "splits_created" \notin DOMAIN r
              ELSE r.success /\ "splits_created" \in DOMAIN r
    /\ BatchCompleted =>
          LET details == report.report.processing_details
              failing == {i \in 1..Len(remaining_files) : TransformFails(remaining_files[i])}
          IN  /\ Len(details) = Len(remaining_files)
              /\ \A i \in 1..Len(remaining_files) :
                    Cardinality(EntriesOf(details, remaining_files[i])) = 1
              /\ report.report.summary.failed = Cardinality(failing)
              /\ report.report.summary.successful = Len(remaining_files) - Cardinality(failing)
    /\ (/\ BatchCompleted
        /\ directory = ScenarioDirectory
        /\ output_format \in DOMAIN config.output_formats
        /\ Len(remaining_files) = 5)
       => /\ report.report.summary.successful = 4
          /\ report.report.summary.failed = 1
          /\ \E i \in 1..5 :
                LET r == report.report.processing_details[i]
                IN  /\ r.source_file = PathOf(3)
                    /\ ~r.success
                    /\ r.error = "cannot identify image file"
                    /\ "splits_created" \notin DOMAIN r

\* The five-file batch has completed, file 3's failure collected before the
\* last file's result.
C7_Witness ==
    /\ BatchCompleted
    /\ directory = ScenarioDirectory
    /\ output_format \in DOMAIN config.output_formats
    /\ Len(results) = 5
    /\ ~results[2].success
    /\ results[5].success

(* C8  When an interrupt arrives during a run with a resume file           *)
(* configured, the resume file on disk holds, when the process exits,      *)
(* every file whose result was collected before the interrupt.             *)
C8_InterruptFlushesCheckpoint ==
    (pc = "exited" /\ interrupted /\ resume_file # "")
    => \A i \in 1..Len(results) : results[i].source_file \in OnDisk

(* C9  After an interrupt no transform is started: a file that waits in    *)
(* the pool's queue when the interrupt has arrived is not taken by a       *)
(* worker in that run.                                                     *)
C9_NoTransformStartsAfterInterrupt ==
    [][interrupted =>
         \A f \in Pending : f \in 1..Len(futures') => futures'[f].state # "running"]_vars

-----------------------------------------------------------------------------
(* C11  (as stated) With an image loaded, a SKU set and an empty list of   *)
(* cut positions, split_by_positions produces the single segment           *)
(* (0, height) with index 1.                                               *)
C11_NoCutsYieldOneSegment ==
    (/\ CalledSplit
     /\ request.args.cut_positions = <<>>
     /\ request.args.skip_areas = <<>>
     /\ request.args.excluded_segments = {})
    => /\ Succeeded
       /\ Reported(response.details) = {<<1, 0, current_image.height>>}

(* C11  (amended) With an empty list of cut positions the planner plans    *)
(* nothing: split_by_positions and _split_with_global_numbering return the *)
(* error "no image loaded or no cut positions", with no details and no     *)
(* segment, whatever the image, the SKU and the other arguments are.       *)
C11_NoCutsAreRejected ==
    (Called /\ request.args.cut_positions = <<>>)
    => /\ response = ErrNoImageOrCuts
       /\ DOMAIN response = {"error"}

\* The call with an image, a SKU, no cuts and nothing to drop was answered.
C11_Witness ==
    /\ CalledSplit
    /\ current_image.height > 0
    /\ current_sku # <<>>
    /\ request.args.cut_positions = <<>>
    /\ request.args.skip_areas = <<>>
    /\ request.args.excluded_segments = {}
    /\ "error" \in DOMAIN response

-----------------------------------------------------------------------------
(* C12  split_by_positions hands no crop box with top = bottom to the      *)
(* codec and reports none in its details: equal adjacent boundaries        *)
(* (duplicate cuts, a cut at 0 or at the image height) are collapsed or    *)
(* the plan is rejected before anything is cropped.                        *)
C12_NoZeroHeightCropBox ==
    CalledSplit =>
        /\ \A i \in 1..Len(codec_calls) : codec_calls[i][2] < codec_calls[i][4]
        /\ Succeeded =>
              \A i \in 1..Len(response.details) :
                  response.details[i].crop_box[2] < response.details[i].crop_box[4]

-----------------------------------------------------------------------------
(* Vocabulary of batch_process's properties.                               *)

CalledBatch == request # NoRequest /\ request.op = "batch_process"

BatchSucceeded == CalledBatch /\ "success" \in DOMAIN response

\* The result batch_process reports for uploaded image j.
ResultOf(j) == response.results[j].result

FileSucceeded(j) == "error" \notin DOMAIN ResultOf(j)

\* The surviving segments of a result: its details without the "-size"
\* duplicates.
BaseDetails(result) == SelectSeq(result.details, LAMBDA d : ~d.has_size_suffix)

\* The number of surviving segments of the images before image j.
RECURSIVE SurvivorsBefore(_)
SurvivorsBefore(j) ==
    IF j <= 1 THEN 0
    ELSE SurvivorsBefore(j - 1)
         + (IF FileSucceeded(j - 1) THEN Len(BaseDetails(ResultOf(j - 1))) ELSE 0)

(* C13  In batch_process with global numbering the running index carried   *)
(* from one image to the next advances by the number of surviving segments *)
(* of the image just processed, one per segment also when the segment is   *)
(* size-suffixed: the first segment reported for an image is numbered one  *)
(* more than the survivors of the images before it. Each image's local     *)
(* index, which the excluded_segments test uses, restarts at 1.            *)
C13_RunningIndexAdvancesBySurvivors ==
    (BatchSucceeded /\ request.global_numbering) =>
        \A j \in 1..Len(response.results) :
            FileSucceeded(j) =>
                LET det == BaseDetails(ResultOf(j))
                    pos == sorted_positions(request.args.cut_positions,
                                            uploaded_images[j].height)
                IN  /\ \A i \in 1..Len(det) : det[i].index = SurvivorsBefore(j) + i
                    /\ Len(det) = Cardinality({k \in 1..(Len(pos) - 1) :
                                                  ~Dropped(pos, k, request.args)})

-----------------------------------------------------------------------------
(* C14  The result of split_by_positions reports two counts, each the      *)
(* number of segments dropped for its reason: excluded_segments the        *)
(* segments whose index is excluded, skipped_areas the segments (not       *)
(* excluded) that overlap a skip area.                                     *)
C14_DropCountsPerReason ==
    (CalledSplit /\ Succeeded) =>
        LET pos == Bounds
            args == request.args
            ks == 1..(Len(pos) - 1)
        IN  /\ response.excluded_segments
                 = Cardinality({k \in ks : k \in args.excluded_segments})
            /\ response.skipped_areas
                 = Cardinality({k \in ks : k \notin args.excluded_segments
                                           /\ DroppedBySkip(pos, k, args)})

-----------------------------------------------------------------------------
(* Vocabulary of the grid planner's properties.                            *)

GridSucceeded == "success" \in DOMAIN grid_result /\ grid_result.success

GridTarget == grid_call.config.output_formats[grid_call.format].height

(* C15  With overlap 0 the grid planner of split_image emits exactly       *)
(* height div target crop boxes, in order, the i-th from (i-1)*target to   *)
(* i*target: each of height target, no two overlapping, no bottom above    *)
(* the image height. Height 3000 with target 1000 gives 3 boxes of which   *)
(* the last ends at 3000.                                                  *)
C15_GridEmitsExactBands ==
    (GridSucceeded /\ grid_call.config.overlap_pixels = 0) =>
        LET det == grid_result.details
            h == grid_call.file.height
            t == GridTarget
        IN  /\ Len(det) = h \div t
            /\ grid_result.splits_created = h \div t
            /\ \A i \in 1..Len(det) :
                 /\ det[i].index = i
                 /\ det[i].crop_box = <<0, (i - 1) * t, grid_call.file.width, i * t>>
                 /\ det[i].crop_box[4] - det[i].crop_box[2] = t
                 /\ det[i].crop_box[4] <= h
                 /\ \A j \in 1..Len(det) :
                       i < j => det[i].crop_box[4] <= det[j].crop_box[2]
            /\ (h = 3000 /\ t = 1000) =>
                 /\ Len(det) = 3
                 /\ det[3].crop_box[4] = 3000

\* Bands were emitted for a height that is not a multiple of the target.
C15_Witness ==
    /\ GridSucceeded
    /\ grid_call.config.overlap_pixels = 0
    /\ Len(grid_result.details) >= 2
    /\ grid_call.file.height % GridTarget # 0

-----------------------------------------------------------------------------
(* Vocabulary of the report's properties.                                  *)

\* The sum of the counts of a bucket table (a function to numbers).
RECURSIVE SumCounts(_)
SumCounts(table) ==
    IF DOMAIN table = {} THEN 0
    ELSE LET b == CHOOSE x \in DOMAIN table : TRUE
         IN  table[b] + SumCounts([x \in DOMAIN table \ {b} |-> table[x]])

(* C16  generate_detailed_report partitions the results into successes and *)
(* failures: successful + failed = total_processed; error_analysis has one *)
(* bucket per message, each counting the failures with that message, and   *)
(* its counts sum to failed; the split_statistics counts sum to            *)
(* successful; success_rate is successes * 100 / total, and 0 for an empty *)
(* result list.                                                            *)
C16_ReportPartitionsResults ==
    report.exists =>
        LET r == report.report
            s == r.summary
            ok == {i \in 1..Len(results) : results[i].success}
            bad == {i \in 1..Len(results) : ~results[i].success}
        IN  /\ s.total_processed = Len(results)
            /\ s.successful = Cardinality(ok)
            /\ s.failed = Cardinality(bad)
            /\ s.successful + s.failed = s.total_processed
            /\ DOMAIN r.error_analysis = {results[i].error : i \in bad}
            /\ \A e \in DOMAIN r.error_analysis :
                  r.error_analysis[e] = Cardinality({i \in bad : results[i].error = e})
            /\ SumCounts(r.error_analysis) = s.failed
            /\ \A n \in DOMAIN r.split_statistics :
                  r.split_statistics[n]
                     = Cardinality({i \in ok : results[i].splits_created = n})
            /\ SumCounts(r.split_statistics) = s.successful
            /\ s.success_rate = (IF Len(results) = 0 THEN <<0, 1>>
                                 ELSE <<100 * Cardinality(ok), Len(results)>>)

\* A report over two failures with different messages and a success.
C16_Witness ==
    /\ report.exists
    /\ Cardinality(DOMAIN report.report.error_analysis) = 2
    /\ report.report.summary.successful = 1
    /\ report.report.summary.failed = 2

-----------------------------------------------------------------------------
(* C17  Every file whose transform failed in a batch run that ended        *)
(* normally has exactly one entry in the report's processing_details, with *)
(* its source path and its error message, in whatever order the results    *)
(* were collected and whether the transform returned a failure or raised.  *)
C17_ReportEnumeratesEveryFailure ==
    BatchCompleted =>
        LET details == report.report.processing_details
        IN  \A i \in 1..Len(remaining_files) :
              LET f == remaining_files[i]
              IN  TransformFails(f) =>
                    /\ Cardinality(EntriesOf(details, f)) = 1
                    /\ \A k \in EntriesOf(details, f) :
                          /\ ~details[k].success
                          /\ details[k].source_file = PathOf(f)
                          /\ details[k].error =
                               (IF output_format \notin DOMAIN config.output_formats
                                THEN "unsupported format"
                                ELSE decode_error(directory[f]))

\* Two files failed by a raised exception were collected against the
\* directory's order, and the run has reported.
C17_Witness ==
    /\ BatchCompleted
    /\ output_format \notin DOMAIN config.output_formats
    /\ Len(results) >= 2
    /\ results[1].source_file > results[2].source_file
    /\ ~results[1].success

-----------------------------------------------------------------------------
(* C18  With a resume file configured the checkpoint is written after      *)
(* every SaveEvery-th completion and once more when the batch ends: while  *)
(* results arrive the paths not yet on disk are those completed since the  *)
(* last multiple of SaveEvery, and after a normally completed run the      *)
(* resume file holds the loaded paths and every file completed in this     *)
(* run. total_processed is the number of paths in processed_files.         *)
C18_CheckpointEveryNthAndAtEnd ==
    resume_file # "" =>
        /\ OnDisk \subseteq processed_files
        /\ pc = "collect" =>
              Cardinality(processed_files \ OnDisk) = completed % SaveEvery
        /\ Loadable(resume_disk) =>
              resume_disk.total_processed = Cardinality(resume_disk.processed_files)
        /\ BatchCompleted =>
              /\ OnDisk = processed_files
              /\ completed = Len(remaining_files)
              /\ OnDisk = {PathOf(f) : f \in Files}

\* The run has ended normally after a periodic checkpoint, with two loaded
\* paths kept beside the files it completed.
C18_Witness ==
    /\ BatchCompleted
    /\ completed = SaveEvery + 1
    /\ Cardinality(OnDisk) = completed + Cardinality({PathOf(1), PathOf(2)})

-----------------------------------------------------------------------------
(* C19  A checkpoint flush is atomic: whenever the process is interrupted  *)
(* or stops during save_resume_data, the resume file on disk is a whole    *)
(* record, the previous one or the new one, which the next run can load.   *)
C19_CheckpointFlushIsAtomic ==
    resume_disk.exists => Loadable(resume_disk)

-----------------------------------------------------------------------------
(* C20  A cut position outside [0, height] makes split_by_positions return *)
(* a structured error for the plan: no crop box with top < 0 or with       *)
(* bottom > height is handed to the codec.                                 *)
C20_OutOfRangeCutIsRejected ==
    (CalledSplit /\ \E i \in 1..Len(request.args.cut_positions) :
                       request.args.cut_positions[i] \notin 0..current_image.height)
    => /\ "error" \in DOMAIN response
       /\ \A i \in 1..Len(codec_calls) :
             codec_calls[i][2] >= 0 /\ codec_calls[i][4] <= current_image.height

-----------------------------------------------------------------------------
(* C21  split_image never raises to its caller: for a source that cannot   *)
(* be decoded, an output format the configuration does not have, and an    *)
(* output directory that cannot be created or written, it returns a        *)
(* failure that carries the source path and a message.                     *)
C21_TransformNeverRaises ==
    grid_result # NoResponse =>
        /\ "raised" \notin DOMAIN grid_result
        /\ "success" \in DOMAIN grid_result
        /\ ~grid_result.success =>
              /\ "error" \in DOMAIN grid_result
              /\ "source_file" \in DOMAIN grid_result

-----------------------------------------------------------------------------
(* C22  When no SKU is set (None, or empty after stripping),               *)
(* split_by_positions and batch_process return an error before any work    *)
(* begins: no output directory is created, no image is opened or cropped,  *)
(* no file is written, and the current image, the uploaded list and the    *)
(* SKU are left as they were.                                              *)
C22_NoSkuAbortsBeforeAnyWork ==
    [][ (current_sku = <<>> /\ request' # NoRequest /\ request = NoRequest) =>
            /\ "error" \in DOMAIN response'
            /\ "success" \notin DOMAIN response'
            /\ codec_calls' = <<>>
            /\ effects'.opened = <<>>
            /\ effects'.directories = {}
            /\ effects'.written = <<>>
            /\ UNCHANGED <<current_image, uploaded_images, current_sku>> ]_vars

\* batch_process was called on two uploaded images with cut positions and
\* no SKU, and answered that the SKU is missing.
C22_Witness ==
    /\ CalledBatch
    /\ current_sku = <<>>
    /\ Len(uploaded_images) = 2
    /\ request.args.cut_positions # <<>>
    /\ response = ErrNoSku

\* The same for split_by_positions on a loaded image.
C22_WitnessSplit ==
    /\ CalledSplit
    /\ current_sku = <<>>
    /\ current_image # NoImage
    /\ request.args.cut_positions # <<>>
    /\ response = ErrNoSku

-----------------------------------------------------------------------------
\* A step of a pool thread: a queued work item starts, or a running one
\* finishes.
WorkerStep ==
    \E f \in Files :
        \/ futures[f].state = "pending" /\ futures'[f].state = "running"
        \/ futures[f].state = "running" /\ futures'[f].state = "finished"

(* C23  The result list, the completed counter and the checkpoint set are  *)
(* modified by the main thread only: a step of a worker thread leaves      *)
(* them and the resume file as they are, and every step that changes one   *)
(* of them is taken by the main thread in the collector loop (or where it  *)
(* loads the checkpoint, or by a new process starting empty), one whole    *)
(* loop body at a time.                                                    *)
C23_SharedStateHasOneWriter ==
    [][ /\ WorkerStep =>
            UNCHANGED <<results, completed, processed_files, resume_disk, pc>>
        /\ (results' # results \/ completed' # completed) =>
            \/ /\ pc = "collect"
               /\ Len(results') = Len(results) + 1
               /\ completed' = completed + 1
               /\ \E f \in Finished :
                     /\ results' = Append(results, futures[f].result)
                     /\ futures'[f].state = "yielded"
            \/ pc = "exited" /\ results' = <<>> /\ completed' = 0
        /\ processed_files' # processed_files => pc \in {"filter", "collect", "exited"}
        /\ resume_disk' # resume_disk => pc = "collect" ]_vars

\* A worker is running and another has finished while the collector has
\* already taken a result into the shared list.
C23_Witness ==
    /\ pc = "collect"
    /\ Len(results) >= 1
    /\ Running # {}
    /\ Finished # {}

-----------------------------------------------------------------------------
(* C24  When every scanned file is in the loaded checkpoint record, the    *)
(* coordinator goes from filtering straight to reporting: nothing is       *)
(* submitted to a pool, no transform starts, the resume file is not        *)
(* rewritten, and (unless the user interrupts) the report is generated and *)
(* the process ends with status 0.                                         *)
C24_NothingRemainingSkipsToReport ==
    [][ /\ ( /\ pc = "filter"
             /\ pc' \notin {"shutdown", "exited"}
             /\ \A i \in 1..Len(image_files) : PathOf(image_files[i]) \in processed_files' )
           => /\ pc' = "report"
              /\ remaining_files' = <<>>
              /\ futures' = futures
              /\ resume_disk' = resume_disk
        /\ ( /\ pc = "report"
             /\ remaining_files = <<>>
             /\ ~interrupted' )
           => /\ pc' = "exited"
              /\ exit_code' = 0
              /\ report'.exists
              /\ Submitted = {}
              /\ \A f \in Files : futures'[f] = NoFuture
              /\ resume_disk' = resume_disk ]_vars

\* A run over three files, all of them in the resume file, has reported
\* without starting a transform.
C24_Witness ==
    /\ BatchCompleted
    /\ resume_file # ""
    /\ Len(image_files) = MaxFiles
    /\ remaining_files = <<>>
    /\ Submitted = {}
    /\ OnDisk = {PathOf(f) : f \in Files}

-----------------------------------------------------------------------------
\* The phase changes of one batch process: scanning, filtering, running
\* (the submissions), draining (the loop over as_completed), reporting, done.
PhaseOrder ==
    {<<"scan", "filter">>, <<"filter", "submit">>, <<"submit", "collect">>,
     <<"collect", "report">>, <<"report", "exited">>,
     \* nothing remains; the directory is missing
     <<"filter", "report">>, <<"scan", "exited">>}

(* C25  With every transform call returning and no interrupt, a batch run  *)
(* goes through scanning, filtering, running, draining and reporting in    *)
(* that order and reaches done with a report and status 0 (a missing input *)
(* directory ends it after scanning with status 1); reporting starts only  *)
(* when every submitted transform has finished and its result has been     *)
(* collected; nothing changes after done.                                  *)
C25_RunReachesDoneInPhaseOrder ==
    /\ <>(pc = "exited")
    /\ (pc = "scan" /\ input_exists) ~> (pc = "filter")
    /\ (pc = "submit") ~> (pc = "collect")
    /\ (pc = "collect") ~> (pc = "report")
    /\ (pc = "filter") ~> (pc = "report")
    /\ (pc = "report") ~> (pc = "exited" /\ exit_code = 0 /\ report.exists)
    /\ [](pc = "report" =>
            /\ Pending = {} /\ Running = {} /\ Finished = {}
            /\ Yielded = {remaining_files[i] : i \in 1..Len(remaining_files)}
            /\ Len(results) = Len(remaining_files)
            /\ completed = Len(remaining_files))
    /\ [][ /\ pc' # pc => <<pc, pc'>> \in PhaseOrder
           /\ pc # "exited" ]_vars

\* A run over three files has been through the pool and has reported.
C25_Witness ==
    /\ BatchCompleted
    /\ ~interrupted
    /\ completed = MaxFiles
    /\ Yielded = Files

-----------------------------------------------------------------------------
(* C26  For every image height, target height and overlap_pixels >= 0,     *)
(* also an overlap larger than the target height, every crop box of        *)
(* split_image lies inside the image: 0 <= top < bottom <= height.         *)
C26_GridBoxesInsideImage ==
    GridSucceeded =>
        \A i \in 1..Len(grid_result.details) :
            LET box == grid_result.details[i].crop_box
            IN  /\ 0 <= box[2]
                /\ box[2] < box[4]
                /\ box[4] <= grid_call.file.height

-----------------------------------------------------------------------------
(* C27  For the same cut positions and skip areas, and nothing excluded,   *)
(* the preview lists the segments split_by_positions writes, in the same   *)
(* order, and shows each of them with the index split_by_positions gives   *)
(* it and uses in its file name.                                           *)
C27_PreviewIndexMatchesSplitIndex ==
    ( /\ CalledSplit /\ Succeeded
      /\ request.args.excluded_segments = {}
      /\ "segments" \in DOMAIN preview )
    => LET base == BaseDetails(response)
           seg == preview.segments
       IN  /\ Len(seg) = Len(base)
           /\ \A i \in 1..Len(seg) :
                 /\ seg[i].top = base[i].crop_box[2]
                 /\ seg[i].bottom = base[i].crop_box[4]
                 /\ seg[i].index = base[i].index
                 /\ base[i].filename = BaseFilename(current_sku, seg[i].index)

-----------------------------------------------------------------------------
\* The batch was called with global numbering.
CalledGlobalBatch == CalledBatch /\ request.global_numbering

(* C28  In batch_process with global numbering no file name is written     *)
(* twice during one batch, whatever the uploaded images and the excluded,  *)
(* skip and size-suffix sets: no output of one image is overwritten by an  *)
(* output of a later image.                                                *)
C28_GlobalNumberingWritesNoNameTwice ==
    CalledGlobalBatch =>
        \A i \in 1..Len(effects.written), j \in 1..Len(effects.written) :
            i # j => effects.written[i] # effects.written[j]

-----------------------------------------------------------------------------
\* The paths of the files whose transform has finished in this run, whether
\* the collector has taken the result or not.
FinishedPaths == {PathOf(f) : f \in Finished \cup Yielded}

\* The paths this run loaded from the resume file: those in the checkpoint
\* set that no result of this run has added.
LoadedAtStart == processed_files \ {PathOf(f) : f \in Yielded}

(* C29  At every point of a run with a resume file that has filtered and   *)
(* found work, every path in the resume file on disk was loaded at the     *)
(* start or is the path of a file whose transform has finished in this     *)
(* run, and fewer than SaveEvery files finished in this run are missing    *)
(* from the file on disk: a crash makes the next run redo fewer than       *)
(* SaveEvery finished files and skip no unfinished one.                    *)
C29_CrashLosesFewerThanFifty ==
    (resume_file # "" /\ remaining_files # <<>>) =>
        /\ OnDisk \subseteq LoadedAtStart \cup FinishedPaths
        /\ Cardinality(FinishedPaths \ OnDisk) < SaveEvery

-----------------------------------------------------------------------------
(* C30  A file whose transform returned a failure is added to the          *)
(* checkpoint set like a successful one: every collected result's path is  *)
(* in the set, a completed run leaves the failed files' paths in the       *)
(* resume file, and the next run with that file does not submit them       *)
(* again.                                                                  *)
C30_FailedFilesAreNotRetried ==
    resume_file # "" =>
        /\ \A i \in 1..Len(results) : results[i].source_file \in processed_files
        /\ BatchCompleted =>
              \A f \in Files : TransformFails(f) => PathOf(f) \in OnDisk
        /\ (run >= 2 /\ history[run - 1].exit_code = 0 /\ history[run - 1].reported) =>
              \A f \in Files :
                  TransformFails(f) =>
                      /\ futures[f] = NoFuture
                      /\ \A i \in 1..Len(remaining_files) : remaining_files[i] # f

\* A first run has collected and reported a failure, and the second run
\* has ended without submitting anything.
C30_Witness ==
    /\ run = 2
    /\ BatchCompleted
    /\ resume_file # ""
    /\ history[1].failed >= 1
    /\ history[1].exit_code = 0
    /\ \E f \in Files : TransformFails(f) /\ ~TransformFails(1)
    /\ Submitted = {}

=============================================================================
